---- MODULE Spec2Model ----
(***************************************************************************)
(* A model of the ragcli core: the chunker (document_processor.chunk_text), *)
(* the retry helper (helpers.retry_with_backoff) behind generate_embedding  *)
(* and generate_response, the ingest pipeline (rag_engine.upload_document), *)
(* the vector search (vector_ops.search_similar), the ask pipeline          *)
(* (rag_engine.ask_query) and the metrics buffers (metrics.MetricsCollector).*)
(*                                                                          *)
(* Similarities, distances and thresholds are fixed-point numbers in        *)
(* tenths: distance 20 is cosine distance 2.0, similarity 8 is 0.8.         *)
(* Times are whole milliseconds of the monotonic clock.                     *)
(* Tokens are identified with their 1-based position in the token sequence. *)
(***************************************************************************)
EXTENDS Integers, Sequences, FiniteSets, TLC

\* ------------------------------------------------------------------ bounds
MaxTokens == 12
MaxChunkSize == 6
MaxIter == 64

MaxRetriesSwept == 4
MaxIngestTokens == 3
MaxIngestChunkSize == 2
MaxUploads == 2
MaxRows == 3
MaxTopK == 3
MaxAskRows == 1
MaxAskTopK == 2
MaxHistorySwept == 2
MaxRecords == 4
MaxSystemRecords == 102
MaxThreadRecords == 3
MaxBatchTexts == 3
MaxLastN == 3

\* ------------------------------------------------------ program constants
\* retry_with_backoff(_api_call, max_retries=3, base_delay=1.0, max_delay=10.0),
\* the delays in tenths of a second.
RetryMaxRetries == 3
RetryBaseDelay == 10
RetryMaxDelay == 100
\* DEFAULT_CONFIG["rag"]: top_k 5, min_similarity_score 0.5 (in tenths).
ConfigTopK == 5
ConfigMinSimilarity == 5
\* validate_query_text: min_length = 3, max_length = 5000 (characters).
MinQueryLength == 3
MaxQueryLength == 5000
\* MetricsCollector(max_history=1000); the system deque has maxlen=100.
DefaultMaxHistory == 1000
SystemMaxLen == 100

VARIABLES
    \* chunk_text: the configuration, the text length, the loop state
    total_tokens, chunk_size, overlap_pct, start, chunks, cpc,
    \* retry_with_backoff inside generate_embedding / generate_response
    max_retries, attempt, outcomes, slept, rpc, caller, g_result,
    \* the store: the DOCUMENTS and CHUNKS tables (committed rows)
    documents, chunk_rows,
    \* upload_document / upload_document_with_progress: the running call
    upc, u_variant, doc_id, idx, emb, u_error, u_metadata, u_progress, n_uploads,
    \* the generate_embedding and insert_chunk calls of the running upload, in
    \* call order, and the documents whose upload has returned
    u_trace, ingested,
    \* connection pools created and not closed, connections acquired and not
    \* released
    pools_open, conns_out,
    \* search_similar: the query (its cosine distance to every stored chunk),
    \* the arguments, the rows the cursor yields, the returned list
    q_dist, s_top_k, s_min_similarity, s_document_ids, s_cursor, s_results, spc,
    \* the store: the QUERIES and QUERY_RESULTS tables (committed rows)
    queries, query_results,
    \* ask_query: the arguments, the locals, the outcome, and how often each
    \* collaborator has been called
    apc, a_args, a_top_k, a_min_similarity, search_result, response, a_error, a_return, a_calls,
    \* the messages handed to generate_response
    messages,
    \* time.perf_counter() and the readings ask_query and search_chunks keep
    a_clock, start_time, emb_time, gen_time,
    \* MetricsCollector: its capacity and its three deques; the calls begun and
    \* completed per kind, every entry appended so far in append order, and
    \* the record_*_metrics call each thread is in
    max_history, query_metrics, upload_metrics, system_metrics,
    n_calls, n_done, recorded, tpc, t_metrics,
    \* the keyword arguments record_query_metrics is called with, and the last
    \* get_query_stats / get_upload_stats call: its argument, the deque it
    \* read, the entries it aggregated and the dict it returned
    m_kwargs, stats,
    \* batch_generate_embeddings: the texts, whether a progress_callback was
    \* given, the loop index, the result list, the texts handed to
    \* generate_embedding and the callback's invocations, both in call order
    b_texts, b_callback, b_i, embeddings, b_embedded, b_progress, bpc

chunkVars == <<total_tokens, chunk_size, overlap_pct, start, chunks, cpc>>
retryVars == <<max_retries, attempt, outcomes, slept, rpc, caller, g_result>>
storeVars == <<documents, chunk_rows>>
uploadVars == <<upc, u_variant, doc_id, idx, emb, u_error, u_metadata, u_progress, n_uploads,
               u_trace, ingested>>
poolVars == <<pools_open, conns_out>>
searchVars == <<q_dist, s_top_k, s_min_similarity, s_document_ids, s_cursor, s_results, spc>>

auditVars == <<queries, query_results>>
askVars == <<apc, a_args, a_top_k, a_min_similarity, search_result, response, a_error, a_return, a_calls,
             messages, a_clock, start_time, emb_time, gen_time>>
metricsVars == <<max_history, query_metrics, upload_metrics, system_metrics,
                 n_calls, n_done, recorded, tpc, t_metrics, m_kwargs, stats>>
batchVars == <<b_texts, b_callback, b_i, embeddings, b_embedded, b_progress, bpc>>

vars == <<chunkVars, retryVars, storeVars, uploadVars, poolVars, searchVars, auditVars, askVars,
          metricsVars, batchVars>>

\* What an action of one component leaves alone.
notChunk == <<retryVars, storeVars, uploadVars, poolVars, searchVars, auditVars, askVars, metricsVars,
    batchVars>>
notRetry == <<chunkVars, storeVars, uploadVars, poolVars, searchVars, auditVars, askVars, metricsVars,
    batchVars>>
notSearch == <<chunkVars, retryVars, storeVars, uploadVars, poolVars, auditVars, askVars, metricsVars,
    batchVars>>
notUpload == <<retryVars, searchVars, auditVars, askVars, metricsVars,
    batchVars>>
notAsk == <<chunkVars, retryVars, storeVars, uploadVars, searchVars, metricsVars,
    batchVars>>
notBatch == <<chunkVars, retryVars, storeVars, uploadVars, poolVars, searchVars, auditVars, askVars,
    metricsVars>>
notMetrics == <<chunkVars, retryVars, storeVars, uploadVars, poolVars, searchVars, auditVars, askVars,
    batchVars>>

\* ------------------------------------------------------------- arithmetic
Min(a, b) == IF a <= b THEN a ELSE b
Max(a, b) == IF a >= b THEN a ELSE b

\* Python's int(a / b) for b > 0: truncation towards zero.
PyInt(a, b) == IF a >= 0 THEN a \div b ELSE -((-a) \div b)

\* Python's seq[lo:hi] on a sequence of length n, as the 0-based half-open
\* window it selects: negative indices count from the end, everything is
\* clamped to [0, n], and an inverted window is empty.
PyIndex(i, n) == IF i < 0 THEN Max(i + n, 0) ELSE Min(i, n)
PySlice(seq, lo, hi) ==
    LET l == PyIndex(lo, Len(seq))
        h == PyIndex(hi, Len(seq))
    IN  IF l < h THEN SubSeq(seq, l + 1, h) ELSE <<>>

\* ------------------------------------------------------------- chunk_text
\* The configurations swept: overlap percentages below, at and above 100.
OverlapPcts == {0, 10, 25, 50, 90, 100, 150}

\* text_tokens = enc.encode(text): the tokens of a text of n tokens.
TextTokens(n) == [i \in 1..n |-> i]

\* overlap_tokens = int(chunk_size * chunk_overlap_percentage / 100)
OverlapTokens(cs, pct) == PyInt(cs * pct, 100)

\* A chunker that forgets the overlap and advances by a whole window.
StepIgnoringOverlap(cs, pct) == cs

\* The amount the window start advances by: chunk_size - overlap_tokens.
Step(cs, pct) == cs - OverlapTokens(cs, pct)

\* One chunk: the tokens of the window and their count.
MakeChunk(tokens) == [tokens |-> tokens, token_count |-> Len(tokens)]

\* A window that stops one token short of chunk_size.
WindowEndShort(s, cs, n) == Min(s + cs - 1, n)

\* end = min(start + chunk_size, total_tokens)
WindowEnd(s, cs, n) == Min(s + cs, n)

\* A chunker that returns one empty chunk for an empty text.
chunk_text_begin_empty_chunk ==
    /\ cpc = "call"
    /\ start' = 0
    /\ chunks' = IF total_tokens = 0 THEN <<MakeChunk(<<>>)>> ELSE <<>>
    /\ cpc' = IF total_tokens = 0 THEN "returned" ELSE "loop"
    /\ UNCHANGED <<total_tokens, chunk_size, overlap_pct>>
    /\ UNCHANGED notChunk

\* chunk_text up to the loop: the early return on an empty text.
chunk_text_begin ==
    /\ cpc = "call"
    /\ start' = 0
    /\ chunks' = <<>>
    /\ cpc' = IF total_tokens = 0 THEN "returned" ELSE "loop"
    /\ UNCHANGED <<total_tokens, chunk_size, overlap_pct>>
    /\ UNCHANGED notChunk

\* One iteration of `while start < total_tokens`.
chunk_text_iter ==
    /\ cpc = "loop"
    /\ Len(chunks) < MaxIter
    /\ IF start < total_tokens
       THEN LET end == WindowEnd(start, chunk_size, total_tokens)
                chunk_tokens == PySlice(TextTokens(total_tokens), start, end)
            IN  /\ chunks' = Append(chunks, MakeChunk(chunk_tokens))
                /\ IF end >= total_tokens
                   THEN /\ cpc' = "returned"
                        /\ start' = start
                   ELSE /\ cpc' = "loop"
                        /\ start' = start + Step(chunk_size, overlap_pct)
       ELSE /\ cpc' = "returned"
            /\ UNCHANGED <<start, chunks>>
    /\ UNCHANGED <<total_tokens, chunk_size, overlap_pct>>
    /\ UNCHANGED notChunk

ChunkConfigs ==
    {<<n, cs, pct>> : n \in 0..MaxTokens, cs \in 1..MaxChunkSize, pct \in OverlapPcts}
        \cup {<<60, 20, 10>>, <<5, 5, 0>>}

ChunkIdle ==
    /\ total_tokens = 0
    /\ chunk_size = 1
    /\ overlap_pct = 0
    /\ start = 0
    /\ chunks = <<>>
    /\ cpc = "idle"

ChunkCall ==
    /\ \E c \in ChunkConfigs :
          /\ total_tokens = c[1]
          /\ chunk_size = c[2]
          /\ overlap_pct = c[3]
    /\ start = 0
    /\ chunks = <<>>
    /\ cpc = "call"

\* ----------------------------------------------------- retry_with_backoff
\* What one call of the wrapped _api_call can do: return a value, fail with a
\* transient error (timeout, connection error, 5xx) or fail with a
\* malformed-request error (4xx from raise_for_status, a missing key).
CallOutcomes == {"ok", "transient", "malformed"}

\* random.uniform(0, 1), in tenths of a second: the ends and the middle.
Jitter == {0, 5, 10}

RECURSIVE Pow2(_)
Pow2(n) == IF n <= 0 THEN 1 ELSE 2 * Pow2(n - 1)

\* delay = min(base_delay * (2 ** attempt) + random.uniform(0, 1), max_delay)
BackoffDelay(a, jitter) == Min(RetryBaseDelay * Pow2(a) + jitter, RetryMaxDelay)

\* An off-by-one in the last-attempt test: `attempt == max_retries`.
IsLastAttemptOffByOne(a, mr) == a = mr

\* `if attempt == max_retries - 1: raise e`
IsLastAttempt(a, mr) == a = mr - 1

\* One pass of the body of `for attempt in range(max_retries)`: func() is
\* called; a value is returned at once; an exception is re-raised on the
\* last attempt and otherwise followed by the backoff sleep.
retry_attempt ==
    /\ rpc = "loop"
    /\ attempt < max_retries
    /\ \E o \in CallOutcomes :
          /\ outcomes' = Append(outcomes, o)
          /\ IF o = "ok"
             THEN /\ rpc' = "returned"
                  /\ UNCHANGED <<attempt, slept>>
             ELSE IF IsLastAttempt(attempt, max_retries)
             THEN /\ rpc' = "raised"
                  /\ UNCHANGED <<attempt, slept>>
             ELSE \E j \in Jitter :
                  /\ slept' = Append(slept, BackoffDelay(attempt, j))
                  /\ attempt' = attempt + 1
                  /\ rpc' = "loop"
    /\ UNCHANGED <<max_retries, caller, g_result>>
    /\ UNCHANGED notRetry

\* range(max_retries) is exhausted without a return or a raise: the function
\* falls off its end and returns None (only when max_retries <= 0).
retry_exhausted ==
    /\ rpc = "loop"
    /\ attempt >= max_retries
    /\ rpc' = "returned_none"
    /\ UNCHANGED <<max_retries, attempt, outcomes, slept, caller, g_result>>
    /\ UNCHANGED notRetry

\* generate_embedding / generate_response around the retry: the value is
\* passed on, any exception becomes Exception("... generation failed: e").
generate_finish ==
    /\ rpc \in {"returned", "returned_none", "raised"}
    /\ g_result = "pending"
    /\ g_result' = CASE rpc = "returned" -> "value"
                     [] rpc = "returned_none" -> "None"
                     [] OTHER -> "Exception"
    /\ UNCHANGED <<max_retries, attempt, outcomes, slept, rpc, caller>>
    /\ UNCHANGED notRetry

RetryIdle ==
    /\ max_retries = RetryMaxRetries
    /\ attempt = 0
    /\ outcomes = <<>>
    /\ slept = <<>>
    /\ rpc = "idle"
    /\ caller = "none"
    /\ g_result = "idle"

RetryCall ==
    /\ max_retries \in 0..MaxRetriesSwept
    /\ attempt = 0
    /\ outcomes = <<>>
    /\ slept = <<>>
    /\ rpc = "loop"
    /\ caller \in {"generate_embedding", "generate_response"}
    /\ g_result = "pending"

\* -------------------------------------------------------- upload_document
\* status VARCHAR2(20) DEFAULT 'READY': the status of a row inserted without
\* one (insert_document names no status column).
DefaultStatus == "READY"

\* The embedding service, a function of the chunk's text.
Embedding(tokens) == [of |-> tokens]

\* A chunk numbering that starts at 0 (enumerate's index used as is).
ChunkNumberZeroBased(i) == i

\* insert_chunk(conn, doc_id, i+1, ...): the number given to chunks[i].
ChunkNumber(i) == i + 1

\* doc_meta = get_document_metadata(text, chunks, ocr_used)
DocMeta(cs) ==
    [chunk_count |-> Len(cs),
     total_tokens |-> LET RECURSIVE Sum(_)
                          Sum(k) == IF k = 0 THEN 0 ELSE cs[k].token_count + Sum(k - 1)
                      IN  Sum(Len(cs))]

\* generate_id(): a fresh identifier.
FreshDocId == Cardinality(documents) + 1
FreshChunkId == Cardinality(chunk_rows) + 1

\* chunk_progress = 50 + int((i + 1) / total_chunks * 50)
ChunkProgress(i, total_chunks) == 50 + PyInt((i + 1) * 50, total_chunks)

\* The call up to chunk_text: the path, format and size checks (an invalid
\* file raises FileNotFoundError / ValueError), preprocess_document, and the
\* call of chunk_text on the extracted text.
upload_begin ==
    /\ upc \in {"idle", "returned", "raised"}
    /\ n_uploads < MaxUploads
    /\ n_uploads' = n_uploads + 1
    /\ \E v \in {"upload_document", "upload_document_with_progress"} : u_variant' = v
    /\ doc_id' = 0
    /\ idx' = 0
    /\ emb' = "none"
    /\ u_metadata' = "none"
    /\ u_trace' = <<>>
    /\ UNCHANGED ingested
    /\ \E valid \in BOOLEAN :
          IF valid
          THEN /\ \E n \in 0..MaxIngestTokens : total_tokens' = n
               /\ start' = 0
               /\ chunks' = <<>>
               /\ cpc' = "call"
               /\ upc' = "chunking"
               /\ u_error' = "none"
               /\ u_progress' = IF u_variant' = "upload_document_with_progress" THEN 30 ELSE -1
          ELSE /\ upc' = "raised"
               /\ u_error' = "InputError"
               /\ u_progress' = -1
               /\ cpc' = "idle"
               /\ UNCHANGED <<total_tokens, start, chunks>>
    /\ UNCHANGED <<chunk_size, overlap_pct>>
    /\ UNCHANGED <<storeVars, poolVars>>
    /\ UNCHANGED notUpload

\* client = OracleClient(config); conn = client.get_connection()
upload_connect ==
    /\ upc = "chunking"
    /\ cpc = "returned"
    /\ \E o \in {"ok", "pool_error", "acquire_error"} :
          CASE o = "ok" ->
                 /\ pools_open' = pools_open + 1
                 /\ conns_out' = conns_out + 1
                 /\ upc' = "insert_document"
                 /\ UNCHANGED u_error
            [] o = "pool_error" ->
                 /\ upc' = "raised"
                 /\ u_error' = "connect"
                 /\ UNCHANGED <<pools_open, conns_out>>
            [] OTHER ->
                 /\ pools_open' = pools_open + 1
                 /\ upc' = "raised"
                 /\ u_error' = "connect"
                 /\ UNCHANGED conns_out
    /\ u_progress' = IF u_variant = "upload_document_with_progress" THEN 50 ELSE u_progress
    /\ UNCHANGED <<u_variant, doc_id, idx, emb, u_metadata, n_uploads, u_trace, ingested>>
    /\ UNCHANGED <<chunkVars, storeVars>>
    /\ UNCHANGED notUpload

\* doc_id = insert_document(conn, ..., doc_meta['chunk_count'], ...): one
\* committed DOCUMENTS row, or an exception and no row.
upload_insert_document ==
    /\ upc = "insert_document"
    /\ \E ok \in BOOLEAN :
          IF ok
          THEN /\ documents' = documents \cup
                     {[document_id |-> FreshDocId,
                       chunk_count |-> DocMeta(chunks).chunk_count,
                       total_tokens |-> DocMeta(chunks).total_tokens,
                       status |-> DefaultStatus]}
               /\ doc_id' = FreshDocId
               /\ upc' = "loop"
               /\ UNCHANGED u_error
          ELSE /\ upc' = "raised"
               /\ u_error' = "insert_document"
               /\ UNCHANGED <<documents, doc_id>>
    /\ idx' = 0
    /\ UNCHANGED <<chunk_rows, u_variant, emb, u_metadata, u_progress, n_uploads, u_trace, ingested>>
    /\ UNCHANGED <<chunkVars, poolVars>>
    /\ UNCHANGED notUpload

\* The record of one generate_embedding or insert_chunk call of the loop.
EmbedCall(i, ok) ==
    [call |-> "embed", chunk |-> i + 1, text |-> chunks[i + 1].tokens, ok |-> ok]
InsertChunkCall(i, ok) ==
    [call |-> "insert_chunk", chunk |-> ChunkNumber(i), text |-> chunks[i + 1].tokens,
     embedding |-> emb, ok |-> ok]

\* A loop that goes on to the next chunk when an embedding fails.
upload_embed_skipping_failure ==
    /\ upc = "loop"
    /\ idx < Len(chunks)
    /\ \E ok \in BOOLEAN :
          /\ u_trace' = Append(u_trace, EmbedCall(idx, ok))
          /\ IF ok
             THEN /\ emb' = Embedding(chunks[idx + 1].tokens)
                  /\ upc' = "insert_chunk"
                  /\ UNCHANGED idx
             ELSE /\ idx' = idx + 1
                  /\ UNCHANGED <<emb, upc>>
    /\ UNCHANGED <<u_variant, doc_id, u_error, u_metadata, u_progress, n_uploads, ingested>>
    /\ UNCHANGED <<chunkVars, storeVars, poolVars>>
    /\ UNCHANGED notUpload

\* emb = generate_embedding(chunk_text, ...) for chunks[i]
upload_embed ==
    /\ upc = "loop"
    /\ idx < Len(chunks)
    /\ \E ok \in BOOLEAN :
          /\ u_trace' = Append(u_trace, EmbedCall(idx, ok))
          /\ IF ok
             THEN /\ emb' = Embedding(chunks[idx + 1].tokens)
                  /\ upc' = "insert_chunk"
                  /\ UNCHANGED u_error
             ELSE /\ upc' = "raised"
                  /\ u_error' = "embed"
                  /\ UNCHANGED emb
    /\ UNCHANGED <<u_variant, doc_id, idx, u_metadata, u_progress, n_uploads, ingested>>
    /\ UNCHANGED <<chunkVars, storeVars, poolVars>>
    /\ UNCHANGED notUpload

\* insert_chunk(conn, doc_id, i+1, chunk_text, ..., embedding=emb): one
\* committed CHUNKS row, or an exception and no row (the table refuses a
\* second row with the same document_id and chunk_number); then the progress
\* update and the next loop index.
upload_insert_chunk ==
    /\ upc = "insert_chunk"
    /\ \E ok \in BOOLEAN :
          LET stored == ok /\ ~(\E r \in chunk_rows : r.document_id = doc_id
                                                      /\ r.chunk_number = ChunkNumber(idx))
          IN
          IF stored
          THEN /\ u_trace' = Append(u_trace, InsertChunkCall(idx, TRUE))
               /\ chunk_rows' = chunk_rows \cup
                     {[chunk_id |-> FreshChunkId,
                       document_id |-> doc_id,
                       chunk_number |-> ChunkNumber(idx),
                       tokens |-> chunks[idx + 1].tokens,
                       token_count |-> chunks[idx + 1].token_count,
                       embedding |-> emb]}
               /\ idx' = idx + 1
               /\ upc' = "loop"
               /\ u_progress' = IF u_variant = "upload_document_with_progress"
                                THEN ChunkProgress(idx, Len(chunks)) ELSE u_progress
               /\ UNCHANGED u_error
          ELSE /\ u_trace' = Append(u_trace, InsertChunkCall(idx, FALSE))
               /\ upc' = "raised"
               /\ u_error' = "insert_chunk"
               /\ UNCHANGED <<chunk_rows, idx, u_progress>>
    /\ UNCHANGED <<documents, u_variant, doc_id, emb, u_metadata, n_uploads, ingested>>
    /\ UNCHANGED <<chunkVars, poolVars>>
    /\ UNCHANGED notUpload

\* After the loop: conn.close(); client.close(); the metadata is returned.
upload_finish ==
    /\ upc = "loop"
    /\ idx >= Len(chunks)
    /\ conns_out' = conns_out - 1
    /\ pools_open' = pools_open - 1
    /\ u_metadata' = [document_id |-> doc_id,
                      chunk_count |-> DocMeta(chunks).chunk_count,
                      total_tokens |-> DocMeta(chunks).total_tokens]
    /\ u_progress' = IF u_variant = "upload_document_with_progress" THEN 100 ELSE u_progress
    /\ upc' = "returned"
    /\ ingested' = ingested \cup {doc_id}
    /\ UNCHANGED <<u_variant, doc_id, idx, emb, u_error, n_uploads, u_trace>>
    /\ UNCHANGED <<chunkVars, storeVars>>
    /\ UNCHANGED notUpload

StoreEmpty ==
    /\ documents = {}
    /\ chunk_rows = {}

PoolsIdle ==
    /\ pools_open = 0
    /\ conns_out = 0

UploadIdle ==
    /\ upc = "idle"
    /\ u_variant = "none"
    /\ doc_id = 0
    /\ idx = 0
    /\ emb = "none"
    /\ u_error = "none"
    /\ u_metadata = "none"
    /\ u_progress = -1
    /\ n_uploads = 0
    /\ u_trace = <<>>
    /\ ingested = {}

\* The configurations an ingest runs under.
IngestConfig ==
    /\ chunk_size \in 1..MaxIngestChunkSize
    /\ overlap_pct \in {0, 50, 100}
    /\ total_tokens = 0
    /\ start = 0
    /\ chunks = <<>>
    /\ cpc = "idle"

\* --------------------------------------------------------- search_similar
\* Cosine distances a stored vector can have to the query, in tenths:
\* 0.0, 0.2, 1.0 (an orthogonal vector) and 1.2.
Distances == {0, 2, 10, 12}

\* The min_similarity values searched with, in tenths: -0.5 (the --threshold
\* option of the ask command takes any float), 0.0, 0.5 and 0.9.
MinSimilarities == {-5, 0, 5, 9}

DocIds == {1, 2}

\* An Optional argument: None (of a list, of a number), or a value.
None == [none |-> TRUE, v |-> <<>>]
NoneNumber == [none |-> TRUE, v |-> 0]
Some(x) == [none |-> FALSE, v |-> x]

\* Python truthiness of an Optional[List]: None and [] are false.
Truthy(list) == ~list.none /\ list.v # <<>>

\* The document_ids argument: None, or a list of document ids.
DocumentIdFilters == {None, Some(<<>>)} \cup {Some(<<d>>) : d \in DocIds}

\* `if document_ids:` is false for None and for an empty list; otherwise
\* the rows are restricted by WHERE c.document_id IN (...).
Candidates(rows, document_ids) ==
    IF Truthy(document_ids)
    THEN {r \in rows : \E i \in 1..Len(document_ids.v) : document_ids.v[i] = r.document_id}
    ELSE rows

\* A store that yields the rows in no particular order.
InOrderUnsorted(f, dist) == TRUE

\* ORDER BY similarity_score ASC, the column being the VECTOR_DISTANCE.
InOrder(f, dist) ==
    \A i \in 1..(Len(f) - 1) : dist[f[i].chunk_id] <= dist[f[i + 1].chunk_id]

\* ORDER BY ... FETCH FIRST :v_top_k ROWS ONLY over the candidate rows: every
\* sequence the store may yield. Rows at the same distance come in any order.
Cursors(rows, dist, top_k, document_ids) ==
    LET cand == Candidates(rows, document_ids)
        m == Min(Max(top_k, 0), Cardinality(cand))
    IN  {f \in [1..m -> cand] :
            /\ \A i, j \in 1..m : i # j => f[i] # f[j]
            /\ InOrder(f, dist)
            /\ \A c \in cand : (\A i \in 1..m : f[i] # c) =>
                   \A i \in 1..m : InOrder(<<f[i], c>>, dist)}

\* score = 1 - row[4]
Score(distance) == 10 - distance

\* A filter that keeps every fetched row.
KeepRowAlways(score, min_similarity) == TRUE

\* `if score >= min_similarity:`
KeepRow(score, min_similarity) == score >= min_similarity

\* The row loop of search_similar: the kept rows, in cursor order.
RECURSIVE Collect(_, _, _)
Collect(cursor, dist, min_similarity) ==
    IF cursor = <<>> THEN <<>>
    ELSE LET row == cursor[Len(cursor)]
             score == Score(dist[row.chunk_id])
             before == Collect(SubSeq(cursor, 1, Len(cursor) - 1), dist, min_similarity)
         IN  IF KeepRow(score, min_similarity)
             THEN Append(before, [chunk_id |-> row.chunk_id,
                                  document_id |-> row.document_id,
                                  chunk_number |-> row.chunk_number,
                                  text |-> row.tokens,
                                  similarity_score |-> score])
             ELSE before

\* Averages are kept in units of 1/AvgScale of a tenth, so that the mean of
\* up to four scores is a whole number.
AvgScale == 12

RECURSIVE SumScores(_)
SumScores(results) ==
    IF results = <<>> THEN 0
    ELSE results[1].similarity_score + SumScores(Tail(results))

\* An average that is the sum of the scores.
AvgSimilaritySumOnly(results) ==
    IF results # <<>> THEN SumScores(results) * AvgScale ELSE 0

\* 'avg_similarity': sum(r['similarity_score'] for r in results) / len(results)
\*                   if results else 0
AvgSimilarity(results) ==
    IF results # <<>> THEN (SumScores(results) * AvgScale) \div Len(results) ELSE 0

\* cursor.execute(sql, ...): the store answers the query.
search_execute ==
    /\ spc = "call"
    /\ \E f \in Cursors(chunk_rows, q_dist, s_top_k, s_document_ids) : s_cursor' = f
    /\ spc' = "rows"
    /\ UNCHANGED <<q_dist, s_top_k, s_min_similarity, s_document_ids, s_results>>
    /\ UNCHANGED notSearch

\* `for row in cursor:` and the return of the results.
search_collect ==
    /\ spc = "rows"
    /\ s_results' = Collect(s_cursor, q_dist, s_min_similarity)
    /\ spc' = "returned"
    /\ UNCHANGED <<q_dist, s_top_k, s_min_similarity, s_document_ids, s_cursor>>
    /\ UNCHANGED notSearch

\* The distances of the chunks to the query of a search made while
\* documents are ingested: near (0.2) or far (1.2).
NearFar == {2, 12}

\* search_similar called by another caller while uploads run, up to and
\* including cursor.execute: the statement reads the CHUNKS rows committed at
\* that moment (insert_chunk commits row by row; the statement does not join
\* DOCUMENTS and has no condition on the document).
search_begin ==
    /\ spc = "idle"
    /\ Cardinality(chunk_rows) <= MaxRows
    /\ \E k \in 1..MaxTopK, dist \in [{r.chunk_id : r \in chunk_rows} -> NearFar] :
          /\ s_top_k' = k
          /\ q_dist' = dist
          /\ \E f \in Cursors(chunk_rows, dist, k, None) : s_cursor' = f
    /\ s_min_similarity' = ConfigMinSimilarity
    /\ s_document_ids' = None
    /\ spc' = "rows"
    /\ UNCHANGED s_results
    /\ UNCHANGED notSearch

\* A store of n chunks, in insertion order, of the documents docOf gives:
\* chunk i is the next chunk of its document.
SeedRows(n, docOf) ==
    {[chunk_id |-> i,
      document_id |-> docOf[i],
      chunk_number |-> Cardinality({j \in 1..i : docOf[j] = docOf[i]}),
      tokens |-> <<i>>,
      token_count |-> 1,
      embedding |-> Embedding(<<i>>)] : i \in 1..n}

SeedDocuments(n, docOf) ==
    {[document_id |-> d,
      chunk_count |-> Cardinality({j \in 1..n : docOf[j] = d}),
      total_tokens |-> Cardinality({j \in 1..n : docOf[j] = d}),
      status |-> DefaultStatus] : d \in {docOf[j] : j \in 1..n}}

\* A store left by earlier ingests, and a query against it.
StoreSeeded(maxRows, docs) ==
    \E n \in 0..maxRows :
        /\ \E docOf \in [1..n -> docs] :
              /\ chunk_rows = SeedRows(n, docOf)
              /\ documents = SeedDocuments(n, docOf)
        /\ q_dist \in [1..n -> Distances]

SearchIdle ==
    /\ s_top_k = 0
    /\ s_min_similarity = 0
    /\ s_document_ids = None
    /\ s_cursor = <<>>
    /\ s_results = <<>>
    /\ spc = "idle"

SearchCall ==
    /\ s_top_k \in 0..MaxTopK
    /\ s_min_similarity \in MinSimilarities
    /\ s_document_ids \in DocumentIdFilters
    /\ s_cursor = <<>>
    /\ s_results = <<>>
    /\ spc = "call"

\* -------------------------------------------------------------- ask_query
\* `x or default` on an Optional number: None and 0 both give the default.
OrDefault(arg, default) == IF arg.none \/ arg.v = 0 THEN default ELSE arg.v

\* results.index(result): the first position holding an equal element.
Index(seq, x) == CHOOSE i \in 1..Len(seq) : seq[i] = x /\ \A j \in 1..(i - 1) : seq[j] # x

\* A difference of two time.perf_counter() readings around a collaborator
\* call, in milliseconds.
Durations == {1, 2}

\* The query texts asked: "", three blanks, a question of 12 characters and a
\* text of 5001 characters, each as its length and its length once stripped.
QueryTexts ==
    {[chars |-> 0, stripped |-> 0], [chars |-> 3, stripped |-> 0],
     [chars |-> 12, stripped |-> 12], [chars |-> 5001, stripped |-> 5001]}

\* validate_query_text: query.strip(), then the emptiness and length checks
\* (the harmful-content patterns are not modelled).
validate_query_text(query) ==
    IF query.stripped = 0 THEN "Query cannot be empty"
    ELSE IF query.stripped < MinQueryLength THEN "Query too short"
    ELSE IF query.stripped > MaxQueryLength THEN "Query too long"
    ELSE "ok"

\* The dict search_chunks returns: {'results': ..., 'metrics': ...}.
SearchResult(results, emb_ms, search_ms, total_ms) ==
    [results |-> results,
     metrics |-> [embedding_time_ms |-> emb_ms,
                  search_time_ms |-> search_ms,
                  total_time_ms |-> total_ms,
                  num_results |-> Len(results),
                  avg_similarity |-> AvgSimilarity(results)]]

\* {**a, **b}: the keys of both dicts, b's value where both have the key.
DictMerge(a, b) ==
    [k \in (DOMAIN a) \cup (DOMAIN b) |-> IF k \in DOMAIN b THEN b[k] ELSE a[k]]

\* The 'metrics' dict of ask_query's return statement: its own entries
\* first, then **search_metrics (the token estimates are not modelled).
ReturnMetrics(search_metrics, gen_ms, total_ms) ==
    DictMerge([search_time_ms |-> search_metrics.search_time_ms,
               generation_time_ms |-> gen_ms,
               total_time_ms |-> total_ms],
              search_metrics)

\* log_query: one QUERIES row, and one QUERY_RESULTS row for each of
\* results[:top_k] with rank = results.index(result) + 1, committed together.
LogQueryRow(query_id, k, threshold, text) ==
    [query_id |-> query_id, top_k |-> k, similarity_threshold |-> threshold,
     response_text |-> text]
LogQueryResults(query_id, results, k) ==
    LET logged == PySlice(results, 0, k)
    IN  {[query_id |-> query_id,
          chunk_id |-> logged[i].chunk_id,
          similarity_score |-> logged[i].similarity_score,
          rank |-> Index(results, logged[i])] : i \in 1..Len(logged)}

Called(what) == [a_calls EXCEPT ![what] = @ + 1]

\* context = "\n\n".join([r['text'] for r in results]): the texts in result
\* order with a separator (written 0) between two of them; "" for no result.
RECURSIVE Context(_)
Context(results) ==
    IF results = <<>> THEN <<>>
    ELSE IF Len(results) = 1 THEN results[1].text
    ELSE results[1].text \o <<0>> \o Context(Tail(results))

\* The system message of every request.
SystemInstruction ==
    "You are a helpful assistant. Use the following context to answer the user's question accurately. If the context doesn't contain relevant information, say so."

\* messages = [{"role": "system", ...}, {"role": "user", "content":
\*             f"Context: {context}\n\nQuestion: {query}"}]
Messages(context, query) ==
    <<[role |-> "system", content |-> SystemInstruction],
      [role |-> "user", content |-> [context |-> context, question |-> query]]>>

\* top_k = top_k or config['rag']['top_k'], and the same for min_similarity.
ask_begin ==
    /\ apc = "call"
    /\ a_top_k' = OrDefault(a_args.top_k, ConfigTopK)
    /\ a_min_similarity' = OrDefault(a_args.min_similarity, ConfigMinSimilarity)
    /\ start_time' = a_clock
    /\ apc' = "embed"
    /\ UNCHANGED <<a_args, search_result, response, a_error, a_return, a_calls, messages>>
    /\ UNCHANGED <<a_clock, emb_time, gen_time>>
    /\ UNCHANGED <<auditVars, poolVars>>
    /\ UNCHANGED notAsk

\* search_chunks, first half: query_embedding = generate_embedding(query, ...)
search_chunks_embed ==
    /\ apc = "embed"
    /\ a_calls' = Called("embed")
    /\ \E ok \in BOOLEAN :
          IF ok
          THEN /\ apc' = "search"
               /\ \E d \in Durations :
                     /\ a_clock' = a_clock + d
                     /\ emb_time' = d
               /\ UNCHANGED a_error
          ELSE /\ apc' = "raised"
               /\ a_error' = "embed"
               /\ UNCHANGED <<a_clock, emb_time>>
    /\ UNCHANGED <<a_args, a_top_k, a_min_similarity, search_result, response, a_return, messages>>
    /\ UNCHANGED <<start_time, gen_time>>
    /\ UNCHANGED <<auditVars, poolVars>>
    /\ UNCHANGED notAsk

\* search_chunks, second half: OracleClient(config), get_connection(),
\* search_similar(conn, ...), client.close() and the returned dict with its
\* timings (search_chunks reads its own start_time right after ask_query
\* read its). The connection is never released by this function; an
\* exception skips client.close().
search_chunks_search ==
    /\ apc = "search"
    /\ \E o \in {"ok", "pool_error", "acquire_error", "search_error"} :
          CASE o = "pool_error" ->
                 /\ apc' = "raised" /\ a_error' = "connect"
                 /\ UNCHANGED <<search_result, a_calls, poolVars, a_clock>>
            [] o = "acquire_error" ->
                 /\ apc' = "raised" /\ a_error' = "connect"
                 /\ pools_open' = pools_open + 1
                 /\ UNCHANGED <<search_result, a_calls, conns_out, a_clock>>
            [] o = "search_error" ->
                 /\ apc' = "raised" /\ a_error' = "search"
                 /\ a_calls' = Called("search")
                 /\ pools_open' = pools_open + 1
                 /\ conns_out' = conns_out + 1
                 /\ UNCHANGED <<search_result, a_clock>>
            [] OTHER ->
                 /\ \E f \in Cursors(chunk_rows, q_dist, a_top_k, a_args.document_ids),
                       d \in Durations :
                       /\ a_clock' = a_clock + d
                       /\ search_result' =
                             SearchResult(Collect(f, q_dist, a_min_similarity),
                                          emb_time, d, a_clock' - start_time)
                 /\ a_calls' = Called("search")
                 /\ conns_out' = conns_out + 1
                 /\ apc' = "generate"
                 /\ UNCHANGED <<a_error, pools_open>>
    /\ UNCHANGED <<a_args, a_top_k, a_min_similarity, response, a_return, messages>>
    /\ UNCHANGED <<start_time, emb_time, gen_time>>
    /\ UNCHANGED auditVars
    /\ UNCHANGED notAsk

\* A generation step that records the failed query in QUERIES (status
\* FAILED) before raising.
ask_generate_logging_failure ==
    /\ apc = "generate"
    /\ messages' = Messages(Context(search_result.results), a_args.query)
    /\ a_calls' = Called("generate")
    /\ \E ok \in BOOLEAN :
          IF ok
          THEN /\ response' = "answer"
               /\ apc' = "log"
               /\ \E d \in Durations :
                     /\ a_clock' = a_clock + d
                     /\ gen_time' = d
               /\ UNCHANGED <<a_error, auditVars>>
          ELSE /\ apc' = "raised"
               /\ a_error' = "generate"
               /\ queries' = queries \cup
                     {LogQueryRow(Cardinality(queries) + 1, a_top_k, a_min_similarity, "")}
               /\ UNCHANGED <<response, query_results, a_clock, gen_time>>
    /\ UNCHANGED <<a_args, a_top_k, a_min_similarity, search_result, a_return>>
    /\ UNCHANGED <<start_time, emb_time>>
    /\ UNCHANGED poolVars
    /\ UNCHANGED notAsk

\* The context, the prompt and generate_response (streamed or not, the
\* response is one string), timed as gen_time.
ask_generate ==
    /\ apc = "generate"
    /\ messages' = Messages(Context(search_result.results), a_args.query)
    /\ a_calls' = Called("generate")
    /\ \E ok \in BOOLEAN :
          IF ok
          THEN /\ response' = "answer"
               /\ apc' = "log"
               /\ \E d \in Durations :
                     /\ a_clock' = a_clock + d
                     /\ gen_time' = d
               /\ UNCHANGED a_error
          ELSE /\ apc' = "raised"
               /\ a_error' = "generate"
               /\ UNCHANGED <<response, a_clock, gen_time>>
    /\ UNCHANGED <<a_args, a_top_k, a_min_similarity, search_result, a_return>>
    /\ UNCHANGED <<start_time, emb_time>>
    /\ UNCHANGED <<auditVars, poolVars>>
    /\ UNCHANGED notAsk

\* The rest of ask_query: OracleClient(config) and get_connection() outside
\* the try; inside it the call log_query(conn, query,
\* search_result['query_embedding'], ...), whose argument raises KeyError
\* when the dict has no such key; `finally` closes the connection and the
\* pool; without an exception total_time is read off the clock and the
\* result dict is returned.
ask_log ==
    /\ apc = "log"
    /\ \E o \in {"ok", "pool_error", "acquire_error", "log_error"} :
          CASE o = "pool_error" ->
                 /\ apc' = "raised" /\ a_error' = "log_connect"
                 /\ UNCHANGED <<auditVars, a_return, a_calls, poolVars, a_clock>>
            [] o = "acquire_error" ->
                 /\ apc' = "raised" /\ a_error' = "log_connect"
                 /\ pools_open' = pools_open + 1
                 /\ UNCHANGED <<auditVars, a_return, a_calls, conns_out, a_clock>>
            [] OTHER ->
                 /\ UNCHANGED poolVars
                 /\ IF "query_embedding" \notin DOMAIN search_result
                    THEN /\ apc' = "raised" /\ a_error' = "KeyError"
                         /\ UNCHANGED <<auditVars, a_return, a_calls, a_clock>>
                    ELSE /\ a_calls' = Called("log_query")
                         /\ IF o = "log_error"
                            THEN /\ apc' = "raised" /\ a_error' = "log_query"
                                 /\ UNCHANGED <<auditVars, a_return, a_clock>>
                            ELSE LET query_id == Cardinality(queries) + 1 IN
                                 /\ \E d \in Durations : a_clock' = a_clock + d
                                 /\ queries' = queries \cup
                                       {LogQueryRow(query_id, a_top_k, a_min_similarity, response)}
                                 /\ query_results' = query_results \cup
                                       LogQueryResults(query_id, search_result.results, a_top_k)
                                 /\ a_return' =
                                       [response |-> response,
                                        results |-> search_result.results,
                                        metrics |-> ReturnMetrics(search_result.metrics, gen_time,
                                                                  a_clock' - start_time)]
                                 /\ apc' = "returned"
                                 /\ UNCHANGED a_error
    /\ UNCHANGED <<a_args, a_top_k, a_min_similarity, search_result, response, messages>>
    /\ UNCHANGED <<start_time, emb_time, gen_time>>
    /\ UNCHANGED notAsk

AuditEmpty ==
    /\ queries = {}
    /\ query_results = {}

NoCalls == [embed |-> 0, search |-> 0, generate |-> 0, log_query |-> 0]

\* No reading of the clock has been taken yet.
ClockIdle ==
    /\ a_clock = 0
    /\ start_time = 0
    /\ emb_time = 0
    /\ gen_time = 0

AskIdle ==
    /\ apc = "idle"
    /\ a_args = [query |-> [chars |-> 0, stripped |-> 0], top_k |-> NoneNumber,
                 min_similarity |-> NoneNumber, document_ids |-> None]
    /\ a_top_k = 0
    /\ a_min_similarity = 0
    /\ search_result = [results |-> <<>>]
    /\ response = ""
    /\ messages = <<>>
    /\ a_error = "none"
    /\ a_return = "none"
    /\ a_calls = NoCalls
    /\ ClockIdle

AskCall ==
    /\ apc = "call"
    /\ \E q \in QueryTexts,
          k \in {NoneNumber} \cup {Some(n) : n \in 0..MaxAskTopK},
          m \in {NoneNumber} \cup {Some(x) : x \in MinSimilarities},
          d \in {None, Some(<<1>>)} :
          a_args = [query |-> q, top_k |-> k, min_similarity |-> m, document_ids |-> d]
    /\ a_top_k = 0
    /\ a_min_similarity = 0
    /\ search_result = [results |-> <<>>]
    /\ response = ""
    /\ messages = <<>>
    /\ a_error = "none"
    /\ a_return = "none"
    /\ a_calls = NoCalls
    /\ ClockIdle

\* ------------------------------------------------------- MetricsCollector
\* The max_history values a collector is constructed with: small ones, and
\* the default of the process-wide collector.
MaxHistories == (0..MaxHistorySwept) \cup {DefaultMaxHistory}

\* The threads calling record_query_metrics / record_upload_metrics on the
\* process-wide collector, and the kinds of record they make.
Threads == {"t1", "t2"}
Kinds == {"query", "upload"}

\* The keyword arguments of a record_query_metrics call: none but the
\* status; the three stage timings (in ms) and no total; a total.
QueryKwargs ==
    {[status |-> "success"],
     [embedding_time_ms |-> 50, search_time_ms |-> 100, generation_time_ms |-> 200],
     [total_time_ms |-> 100]}

\* A dataclass field: the keyword argument if given, else the default.
Field(kwargs, name, default) == IF name \in DOMAIN kwargs THEN kwargs[name] ELSE default

\* QueryMetrics(query_id=query_id, **kwargs), UploadMetrics(document_id=...)
\* and SystemMetrics(): a fresh metrics object, every timing 0.0 unless
\* given. The token counts, the similarity figures and the psutil readings
\* are not modelled; a system snapshot is identified by its timestamp, the
\* number of the snapshot.
QueryMetrics(query_id, kwargs) ==
    [query_id |-> query_id,
     embedding_time_ms |-> Field(kwargs, "embedding_time_ms", 0),
     search_time_ms |-> Field(kwargs, "search_time_ms", 0),
     generation_time_ms |-> Field(kwargs, "generation_time_ms", 0),
     total_time_ms |-> Field(kwargs, "total_time_ms", 0),
     status |-> Field(kwargs, "status", "success")]
UploadMetrics(document_id) == [document_id |-> document_id, status |-> "success"]
SystemMetrics(timestamp) == [timestamp |-> timestamp]

\* A bounded buffer that, when full, overwrites its newest entry.
DequeAppendEvictingNewest(d, x, maxlen) ==
    IF maxlen = 0 THEN d
    ELSE IF Len(d) >= maxlen THEN Append(SubSeq(d, 1, Len(d) - 1), x)
    ELSE Append(d, x)

\* deque(maxlen=maxlen).append(x): x is added on the right; a full deque
\* first discards its leftmost entry; a deque of maxlen 0 stays empty.
DequeAppend(d, x, maxlen) ==
    IF maxlen = 0 THEN d
    ELSE IF Len(d) >= maxlen THEN Append(Tail(d), x)
    ELSE Append(d, x)

\* record_query_metrics(query_id) run to its end by a single caller: the
\* QueryMetrics object is built and MetricsCollector.record_query appends it.
record_query ==
    /\ n_calls.query < MaxRecords
    /\ LET metrics == QueryMetrics(n_calls.query + 1, m_kwargs) IN
          /\ query_metrics' = DequeAppend(query_metrics, metrics, max_history)
          /\ recorded' = [recorded EXCEPT !.query = Append(@, metrics)]
    /\ n_calls' = [n_calls EXCEPT !.query = @ + 1]
    /\ n_done' = [n_done EXCEPT !.query = @ + 1]
    /\ UNCHANGED <<max_history, upload_metrics, system_metrics, tpc, t_metrics>>
    /\ UNCHANGED <<m_kwargs, stats>>
    /\ UNCHANGED notMetrics

\* record_upload_metrics(document_id) run to its end by a single caller.
record_upload ==
    /\ n_calls.upload < MaxRecords
    /\ LET metrics == UploadMetrics(n_calls.upload + 1) IN
          /\ upload_metrics' = DequeAppend(upload_metrics, metrics, max_history)
          /\ recorded' = [recorded EXCEPT !.upload = Append(@, metrics)]
    /\ n_calls' = [n_calls EXCEPT !.upload = @ + 1]
    /\ n_done' = [n_done EXCEPT !.upload = @ + 1]
    /\ UNCHANGED <<max_history, query_metrics, system_metrics, tpc, t_metrics>>
    /\ UNCHANGED <<m_kwargs, stats>>
    /\ UNCHANGED notMetrics

\* MetricsCollector.record_system_metrics(): a snapshot is taken and appended
\* to the deque of maxlen 100.
record_system_metrics ==
    /\ n_calls.system < MaxSystemRecords
    /\ LET metrics == SystemMetrics(n_calls.system + 1) IN
          /\ system_metrics' = DequeAppend(system_metrics, metrics, SystemMaxLen)
          /\ recorded' = [recorded EXCEPT !.system = Append(@, metrics)]
    /\ n_calls' = [n_calls EXCEPT !.system = @ + 1]
    /\ n_done' = [n_done EXCEPT !.system = @ + 1]
    /\ UNCHANGED <<max_history, query_metrics, upload_metrics, tpc, t_metrics>>
    /\ UNCHANGED <<m_kwargs, stats>>
    /\ UNCHANGED notMetrics

\* The same calls made by threads, in the steps at which threads interleave.
\* First step: QueryMetrics(query_id=query_id, **kwargs) or
\* UploadMetrics(document_id=document_id, **kwargs) builds the object, local
\* to the calling thread.
record_metrics_build(t) ==
    /\ tpc[t] = "idle"
    /\ \E kind \in Kinds :
          /\ n_calls[kind] < MaxThreadRecords
          /\ t_metrics' = [t_metrics EXCEPT ![t] =
                 [kind |-> kind,
                  metrics |-> IF kind = "query" THEN QueryMetrics(n_calls[kind] + 1, m_kwargs)
                              ELSE UploadMetrics(n_calls[kind] + 1)]]
          /\ n_calls' = [n_calls EXCEPT ![kind] = @ + 1]
    /\ tpc' = [tpc EXCEPT ![t] = "built"]
    /\ UNCHANGED <<max_history, query_metrics, upload_metrics, system_metrics, n_done, recorded>>
    /\ UNCHANGED <<m_kwargs, stats>>
    /\ UNCHANGED notMetrics

\* An append that is dropped when another thread is inside a record call.
record_metrics_append_lossy(t) ==
    /\ tpc[t] = "built"
    /\ IF \E u \in Threads \ {t} : tpc[u] # "idle"
       THEN UNCHANGED <<query_metrics, upload_metrics, recorded>>
       ELSE LET kind == t_metrics[t].kind
                metrics == t_metrics[t].metrics
            IN  /\ query_metrics' = IF kind = "query"
                       THEN DequeAppend(query_metrics, metrics, max_history) ELSE query_metrics
                /\ upload_metrics' = IF kind = "upload"
                       THEN DequeAppend(upload_metrics, metrics, max_history) ELSE upload_metrics
                /\ recorded' = [recorded EXCEPT ![kind] = Append(@, metrics)]
    /\ tpc' = [tpc EXCEPT ![t] = "appended"]
    /\ UNCHANGED <<max_history, system_metrics, n_calls, n_done, t_metrics>>
    /\ UNCHANGED <<m_kwargs, stats>>
    /\ UNCHANGED notMetrics

\* Second step: self.query_metrics.append(metrics) or
\* self.upload_metrics.append(metrics), one operation of the deque, which no
\* other thread's operation on the deque interleaves with.
record_metrics_append(t) ==
    /\ tpc[t] = "built"
    /\ LET kind == t_metrics[t].kind
           metrics == t_metrics[t].metrics
       IN  /\ query_metrics' = IF kind = "query"
                  THEN DequeAppend(query_metrics, metrics, max_history) ELSE query_metrics
           /\ upload_metrics' = IF kind = "upload"
                  THEN DequeAppend(upload_metrics, metrics, max_history) ELSE upload_metrics
           /\ recorded' = [recorded EXCEPT ![kind] = Append(@, metrics)]
    /\ tpc' = [tpc EXCEPT ![t] = "appended"]
    /\ UNCHANGED <<max_history, system_metrics, n_calls, n_done, t_metrics>>
    /\ UNCHANGED <<m_kwargs, stats>>
    /\ UNCHANGED notMetrics

\* Last step: logger.info(...) and the return of the metrics object.
record_metrics_return(t) ==
    /\ tpc[t] = "appended"
    /\ n_done' = [n_done EXCEPT ![t_metrics[t].kind] = @ + 1]
    /\ tpc' = [tpc EXCEPT ![t] = "idle"]
    /\ UNCHANGED <<max_history, query_metrics, upload_metrics, system_metrics, n_calls,
                   recorded, t_metrics>>
    /\ UNCHANGED <<m_kwargs, stats>>
    /\ UNCHANGED notMetrics

\* The last_n argument of the two stats methods: None, or a count.
LastNs == {NoneNumber} \cup {Some(n) : n \in 0..MaxLastN}

\* metrics = list(self.query_metrics)[-last_n:] if last_n else self.query_metrics
StatsWindow(history, last_n) ==
    IF ~last_n.none /\ last_n.v # 0
    THEN PySlice(history, -last_n.v, Len(history))
    ELSE history

\* `if not metrics: return {}`, else the dict of aggregates, of which the
\* count is kept (the averages are not modelled).
StatsDict(metrics, count_key) ==
    IF metrics = <<>> THEN [k \in {} |-> 0]
    ELSE [k \in {count_key} |-> Len(metrics)]

\* MetricsCollector.get_query_stats(last_n)
get_query_stats ==
    /\ \E last_n \in LastNs :
          stats' = [call |-> "get_query_stats",
                    last_n |-> last_n,
                    held |-> query_metrics,
                    metrics |-> StatsWindow(query_metrics, last_n),
                    result |-> StatsDict(StatsWindow(query_metrics, last_n), "total_queries")]
    /\ UNCHANGED <<max_history, query_metrics, upload_metrics, system_metrics,
                   n_calls, n_done, recorded, tpc, t_metrics, m_kwargs>>
    /\ UNCHANGED notMetrics

\* MetricsCollector.get_upload_stats(last_n)
get_upload_stats ==
    /\ \E last_n \in LastNs :
          stats' = [call |-> "get_upload_stats",
                    last_n |-> last_n,
                    held |-> upload_metrics,
                    metrics |-> StatsWindow(upload_metrics, last_n),
                    result |-> StatsDict(StatsWindow(upload_metrics, last_n), "total_uploads")]
    /\ UNCHANGED <<max_history, query_metrics, upload_metrics, system_metrics,
                   n_calls, n_done, recorded, tpc, t_metrics, m_kwargs>>
    /\ UNCHANGED notMetrics

NoMetrics == [kind |-> "none", metrics |-> <<>>]
NoStats == [call |-> "none", last_n |-> NoneNumber, held |-> <<>>, metrics |-> <<>>,
            result |-> [k \in {} |-> 0]]

\* MetricsCollector(max_history): three empty deques, nothing recorded.
NewCollector(mh) ==
    /\ max_history = mh
    /\ stats = NoStats
    /\ query_metrics = <<>>
    /\ upload_metrics = <<>>
    /\ system_metrics = <<>>
    /\ n_calls = [query |-> 0, upload |-> 0, system |-> 0]
    /\ n_done = [query |-> 0, upload |-> 0, system |-> 0]
    /\ recorded = [query |-> <<>>, upload |-> <<>>, system |-> <<>>]
    /\ tpc = [t \in Threads |-> "idle"]
    /\ t_metrics = [t \in Threads |-> NoMetrics]

\* _metrics_collector = MetricsCollector()
MetricsIdle == NewCollector(DefaultMaxHistory) /\ m_kwargs = [status |-> "success"]

MetricsCall ==
    /\ \E mh \in MaxHistories : NewCollector(mh)
    /\ m_kwargs \in QueryKwargs

\* ---------------------------------------------- batch_generate_embeddings
\* The texts a batch is made of, each text being its tokens.
BatchTexts == {<<1>>, <<2>>}

\* A progress report that counts the items from 0.
BatchProgressZeroBased(i, total) == <<i - 1, total>>

\* progress_callback(i, total), i counting the items from 1.
BatchProgress(i, total) == <<i, total>>

\* One pass of `for i, text in enumerate(texts, 1)`: generate_embedding(text)
\* returns a vector, which is appended, and the callback (if one was given)
\* is told; or it raises and the exception leaves the function. After the
\* last text the list is returned.
batch_embed_item ==
    /\ bpc = "loop"
    /\ IF b_i <= Len(b_texts)
       THEN /\ b_embedded' = Append(b_embedded, b_texts[b_i])
            /\ \E ok \in BOOLEAN :
                  IF ok
                  THEN /\ embeddings' = Append(embeddings, Embedding(b_texts[b_i]))
                       /\ b_progress' = IF b_callback
                                        THEN Append(b_progress, BatchProgress(b_i, Len(b_texts)))
                                        ELSE b_progress
                       /\ b_i' = b_i + 1
                       /\ bpc' = "loop"
                  ELSE /\ bpc' = "raised"
                       /\ UNCHANGED <<embeddings, b_progress, b_i>>
       ELSE /\ bpc' = "returned"
            /\ UNCHANGED <<embeddings, b_embedded, b_progress, b_i>>
    /\ UNCHANGED <<b_texts, b_callback>>
    /\ UNCHANGED notBatch

BatchIdle ==
    /\ b_texts = <<>>
    /\ b_callback = FALSE
    /\ b_i = 1
    /\ embeddings = <<>>
    /\ b_embedded = <<>>
    /\ b_progress = <<>>
    /\ bpc = "idle"

\* embeddings = []; total = len(texts); the loop starts at i = 1.
BatchCall ==
    /\ \E n \in 0..MaxBatchTexts : b_texts \in [1..n -> BatchTexts]
    /\ b_callback \in BOOLEAN
    /\ b_i = 1
    /\ embeddings = <<>>
    /\ b_embedded = <<>>
    /\ b_progress = <<>>
    /\ bpc = "loop"

\* ---------------------------------------------------------- specifications
NoQuery == q_dist = <<>>

InitChunk ==
    ChunkCall /\ RetryIdle /\ StoreEmpty /\ UploadIdle /\ PoolsIdle /\ SearchIdle /\ NoQuery
        /\ AuditEmpty /\ AskIdle /\ MetricsIdle /\ BatchIdle
NextChunk == chunk_text_begin \/ chunk_text_iter
SpecChunk == InitChunk /\ [][NextChunk]_vars

InitRetry ==
    RetryCall /\ ChunkIdle /\ StoreEmpty /\ UploadIdle /\ PoolsIdle /\ SearchIdle /\ NoQuery
        /\ AuditEmpty /\ AskIdle /\ MetricsIdle /\ BatchIdle
NextRetry == retry_attempt \/ retry_exhausted \/ generate_finish
SpecRetry == InitRetry /\ [][NextRetry]_vars

InitIngest ==
    IngestConfig /\ RetryIdle /\ StoreEmpty /\ UploadIdle /\ PoolsIdle /\ SearchIdle /\ NoQuery
        /\ AuditEmpty /\ AskIdle /\ MetricsIdle /\ BatchIdle
NextIngest ==
    \/ upload_begin
    \/ chunk_text_begin
    \/ chunk_text_iter
    \/ upload_connect
    \/ upload_insert_document
    \/ upload_embed
    \/ upload_insert_chunk
    \/ upload_finish
SpecIngest == InitIngest /\ [][NextIngest]_vars

InitSearch ==
    SearchCall /\ StoreSeeded(MaxRows, DocIds) /\ ChunkIdle /\ RetryIdle /\ UploadIdle /\ PoolsIdle
        /\ AuditEmpty /\ AskIdle /\ MetricsIdle /\ BatchIdle
NextSearch == search_execute \/ search_collect
SpecSearch == InitSearch /\ [][NextSearch]_vars

InitAsk ==
    AskCall /\ StoreSeeded(MaxAskRows, DocIds) /\ AuditEmpty /\ ChunkIdle /\ RetryIdle
        /\ UploadIdle /\ PoolsIdle /\ SearchIdle /\ MetricsIdle /\ BatchIdle
NextAsk ==
    \/ ask_begin
    \/ search_chunks_embed
    \/ search_chunks_search
    \/ ask_generate
    \/ ask_log
SpecAsk == InitAsk /\ [][NextAsk]_vars

InitMetrics ==
    MetricsCall /\ ChunkIdle /\ RetryIdle /\ StoreEmpty /\ UploadIdle /\ PoolsIdle /\ SearchIdle
        /\ NoQuery /\ AuditEmpty /\ AskIdle /\ BatchIdle
NextMetrics == record_query \/ record_upload \/ record_system_metrics
SpecMetrics == InitMetrics /\ [][NextMetrics]_vars

NextMetricsThreads ==
    \E t \in Threads :
        \/ record_metrics_build(t)
        \/ record_metrics_append(t)
        \/ record_metrics_return(t)
SpecMetricsThreads == InitMetrics /\ [][NextMetricsThreads]_vars

NextIngestSearch ==
    \/ NextIngest
    \/ search_begin
    \/ search_collect
SpecIngestSearch == InitIngest /\ [][NextIngestSearch]_vars

NextStats == record_query \/ record_upload \/ get_query_stats \/ get_upload_stats
SpecStats == InitMetrics /\ [][NextStats]_vars

InitBatch ==
    BatchCall /\ ChunkIdle /\ RetryIdle /\ StoreEmpty /\ UploadIdle /\ PoolsIdle /\ SearchIdle
        /\ NoQuery /\ AuditEmpty /\ AskIdle /\ MetricsIdle
NextBatch == batch_embed_item
SpecBatch == InitBatch /\ [][NextBatch]_vars

\* ------------------------------------------------------------------ claims

\* The CHUNKS rows of one document.
RowsOf(d) == {r \in chunk_rows : r.document_id = d}

\* C1: a document whose persisted status is READY has exactly chunk_count
\* persisted chunk rows, in every state of an ingest.
C1_ReadyHasAllChunks ==
    \A d \in documents :
        d.status = "READY" => Cardinality(RowsOf(d.document_id)) = d.chunk_count

\* C2: after an ingest ended with a failure of embed or insert_chunk, the
\* document's chunks have been rolled back and no READY document remains, or
\* the document row is in status ERROR.
C2_NoSilentPartialDocument ==
    (upc = "raised" /\ u_error \in {"embed", "insert_chunk"}) =>
        \/ /\ RowsOf(doc_id) = {}
           /\ ~(\E d \in documents : d.document_id = doc_id /\ d.status = "READY")
        \/ \E d \in documents : d.document_id = doc_id /\ d.status = "ERROR"

\* C6: when the query embedding, the search, the generation and the audit
\* insert all succeed, ask_query returns normally: it ends in an error only
\* when one of those collaborators (or the storage connection) failed.
C6_AskReturnsWhenAllSucceed ==
    apc = "raised" =>
        a_error \in {"embed", "connect", "search", "generate", "log_connect", "log_query"}

\* C7: in a run of ask_query in which the query embedding or the generation
\* failed, the ask is aborted, log_query is never invoked and no QUERIES or
\* QUERY_RESULTS row is persisted.
C7_NoAuditAfterEmbedOrGenerateFailure ==
    a_error \in {"embed", "generate"} =>
        /\ apc = "raised"
        /\ a_calls.log_query = 0
        /\ queries = {}
        /\ query_results = {}

C7_GenerationFailedAfterSearch ==
    /\ apc = "raised"
    /\ a_error = "generate"
    /\ a_calls = [embed |-> 1, search |-> 1, generate |-> 1, log_query |-> 0]
    /\ Len(search_result.results) >= 1
    /\ queries = {}

\* C8: a failure while persisting the audit record (the storage connection
\* failing, or log_query raising) is not fatal to ask_query: the call does
\* not end in an error because of it.
C8_AuditFailureNonFatal ==
    ~(apc = "raised" /\ a_error \in {"log_connect", "log_query"})

\* C9: in every state of an ingest, also after a failure partway through,
\* the chunk numbers persisted for a document are exactly 1..k for some
\* k >= 0, each carried by one row.
C9_ChunkNumbersContiguous ==
    \A d \in documents :
        LET rows == RowsOf(d.document_id)
            k == Cardinality(rows)
        IN  {r.chunk_number : r \in rows} = 1..k

C9_PartialIngestTwoOfThree ==
    /\ upc = "raised"
    /\ u_error \in {"embed", "insert_chunk"}
    /\ Len(chunks) = 3
    /\ {r.chunk_number : r \in RowsOf(doc_id)} = {1, 2}

\* C10: search_similar returns at most top_k results (top_k >= 1), every
\* returned similarity_score is >= min_similarity, and the scores do not
\* increase along the list.
C10_SearchResultsBounded ==
    (spc = "returned" /\ s_top_k >= 1) =>
        /\ Len(s_results) <= s_top_k
        /\ \A i \in 1..Len(s_results) : s_results[i].similarity_score >= s_min_similarity
        /\ \A i \in 1..(Len(s_results) - 1) :
              s_results[i].similarity_score >= s_results[i + 1].similarity_score

C10_FilteredSearch ==
    /\ spc = "returned"
    /\ s_top_k = 2
    /\ Len(s_cursor) = 2
    /\ Len(s_results) = 1
    /\ Cardinality(chunk_rows) = 3

\* C3: retry_with_backoff calls the wrapped operation at most max_retries
\* times (3 for generate_embedding and generate_response); every call but
\* the last one made has failed; a run that returned ended on its first
\* success (fail, fail, ok: exactly 3 calls); a run of max_retries failures
\* raises right after the last one, with no further call, and the wrapper
\* turns that into its exception.
C3_RetryAttempts ==
    LET n == Len(outcomes) IN
    /\ n <= max_retries
    /\ \A i \in 1..(n - 1) : outcomes[i] # "ok"
    /\ Len(slept) = attempt
    /\ rpc = "returned" => (n >= 1 /\ outcomes[n] = "ok")
    /\ (rpc = "returned" /\ n >= 3 /\ outcomes[1] # "ok" /\ outcomes[2] # "ok"
            /\ outcomes[3] = "ok") => n = 3
    /\ rpc = "raised" => (n = max_retries /\ outcomes[n] # "ok")
    /\ (max_retries >= 1 /\ n = max_retries /\ outcomes[n] # "ok") => rpc = "raised"
    /\ g_result = "Exception" => (rpc = "raised" /\ n = max_retries)
    /\ g_result = "value" => rpc = "returned"

C3_ThreeFailuresRaise ==
    /\ max_retries = 3
    /\ Len(outcomes) = 3
    /\ \A i \in 1..3 : outcomes[i] # "ok"
    /\ rpc = "raised"
    /\ g_result = "Exception"

\* C4: chunk_text terminates for every configuration: an iteration of the
\* window loop either ends the loop or moves the window start strictly
\* forward (a configuration whose step is <= 0 is refused before looping).
C4_StartAdvancesOrLoopEnds ==
    [][cpc = "loop" => (cpc' = "returned" \/ cpc' = "config_error" \/ start' > start)]_vars

\* C5: with 0 <= overlap_tokens < chunk_size and N >= 1 tokens, the i-th
\* chunk (0-based) returned by chunk_text is exactly the tokens
\* [i*step, min(i*step + chunk_size, N)), its token_count is the window's
\* length, and the last chunk is the first whose window reaches N; so
\* N <= chunk_size gives the one chunk of all tokens, and chunk_size 20,
\* overlap 10%, N = 60 gives [0,20), [18,38), [36,56), [54,60).
WindowOf(c) == IF c.tokens = <<>> THEN <<0, 0>>
               ELSE <<c.tokens[1] - 1, c.tokens[Len(c.tokens)]>>

C5_ChunkWindows ==
    (/\ cpc = "returned"
     /\ total_tokens >= 1
     /\ OverlapTokens(chunk_size, overlap_pct) >= 0
     /\ OverlapTokens(chunk_size, overlap_pct) < chunk_size)
    =>
    LET st == chunk_size - OverlapTokens(chunk_size, overlap_pct)
        n == Len(chunks)
    IN  /\ n >= 1
        /\ \A i \in 1..n :
              LET lo == (i - 1) * st
                  hi == Min(lo + chunk_size, total_tokens)
              IN  /\ chunks[i].tokens = [k \in 1..(hi - lo) |-> lo + k]
                  /\ chunks[i].token_count = hi - lo
                  /\ (lo + chunk_size >= total_tokens) <=> (i = n)
        /\ total_tokens <= chunk_size =>
              (n = 1 /\ chunks[1].tokens = TextTokens(total_tokens))
        /\ (total_tokens = 60 /\ chunk_size = 20 /\ overlap_pct = 10) =>
              [i \in 1..n |-> WindowOf(chunks[i])]
                  = << <<0, 20>>, <<18, 38>>, <<36, 56>>, <<54, 60>> >>

C5_SixtyTokensFourChunks ==
    /\ cpc = "returned"
    /\ total_tokens = 60 /\ chunk_size = 20 /\ overlap_pct = 10
    /\ Len(chunks) = 4
    /\ chunks[4].token_count = 6

\* C11: every result returned by a search has a similarity_score within
\* [0, 1] (0..10 in tenths), whatever the stored distances and whatever
\* min_similarity the caller passed.
C11_SimilarityWithinUnitInterval ==
    spc = "returned" =>
        \A i \in 1..Len(s_results) :
            /\ s_results[i].similarity_score >= 0
            /\ s_results[i].similarity_score <= 10

\* The candidate rows the cursor did not yield.
OutsideWindow ==
    {c \in Candidates(chunk_rows, s_document_ids) :
        \A i \in 1..Len(s_cursor) : s_cursor[i] # c}

\* C12 as amended: when search_similar returns fewer than top_k results, no
\* row of the store (same document filter) outside the fetched window has a
\* similarity >= min_similarity: the window holds the nearest rows, so a row
\* outside it scores no higher than the fetched row that was filtered out.
C12_NoQualifyingRowOutsideWindow ==
    (spc = "returned" /\ Len(s_results) < s_top_k) =>
        \A c \in OutsideWindow : Score(q_dist[c.chunk_id]) < s_min_similarity

C12_FilteredWithRowsOutside ==
    /\ spc = "returned"
    /\ s_document_ids = Some(<<1>>)
    /\ s_top_k = 2
    /\ Len(s_results) = 1
    /\ OutsideWindow # {}
    /\ \E c \in OutsideWindow : Score(q_dist[c.chunk_id]) = Score(q_dist[s_cursor[2].chunk_id])

\* C12 as the specification states it: whichever search is being run, among
\* the searches that can be run (a store of up to MaxRows rows, a query,
\* top_k, min_similarity, a document filter, and an order the store may yield
\* the rows in) there is one that returns fewer than top_k results although
\* a row with similarity >= min_similarity lies outside the fetched window.
C12_QualifyingRowBeyondWindowExists ==
    spc # "idle" =>
    \E n \in 0..MaxRows :
      \E docOf \in [1..n -> DocIds], dist \in [1..n -> Distances] :
        \E top_k \in 0..MaxTopK, min_similarity \in MinSimilarities,
           document_ids \in DocumentIdFilters :
          \E f \in Cursors(SeedRows(n, docOf), dist, top_k, document_ids) :
            /\ Len(Collect(f, dist, min_similarity)) < top_k
            /\ \E c \in Candidates(SeedRows(n, docOf), document_ids) :
                  /\ \A i \in 1..Len(f) : f[i] # c
                  /\ Score(dist[c.chunk_id]) >= min_similarity

\* C13: the metrics dict ask_query builds for its return, from the readings
\* it holds once the generation is done and whatever the audit insert takes,
\* has total_time_ms >= embedding_time_ms + search_time_ms +
\* generation_time_ms.
C13_TotalTimeCoversStages ==
    apc = "log" =>
        \A d \in Durations :
            LET m == ReturnMetrics(search_result.metrics, gen_time,
                                   (a_clock + d) - start_time)
            IN  m.total_time_ms >=
                    m.embedding_time_ms + m.search_time_ms + m.generation_time_ms

\* C14: an ask_query call that is over and in which no collaborator failed
\* has returned, and the process's MetricsCollector holds a query record for
\* it (more query records than the none it held before the call).
C14_AskRecordsQueryMetrics ==
    (/\ apc \in {"returned", "raised"}
     /\ a_error \notin {"embed", "connect", "search", "generate", "log_connect", "log_query"})
    =>
    /\ apc = "returned"
    /\ Len(query_metrics) > 0

\* C15: once an upload_document / upload_document_with_progress call has
\* returned or raised, no pool it created is still open and no connection it
\* acquired is still un-released.
C15_ConnectionsReleased ==
    upc \in {"returned", "raised"} => (pools_open = 0 /\ conns_out = 0)

\* C16: for an empty or whitespace-only query, or one longer than the length
\* bound, ask_query invokes none of embed, search, generate and log_query,
\* and the call ends with an input error.
C16_InvalidQueryRejected ==
    validate_query_text(a_args.query) \in {"Query cannot be empty", "Query too long"} =>
        /\ a_calls = NoCalls
        /\ apc # "returned"
        /\ apc = "raised" => a_error = "InputError"

\* C17: a malformed-request failure of the wrapped call is never followed by
\* another attempt: it is the last call retry_with_backoff makes, so a call
\* whose first attempt fails that way is attempted exactly once.
C17_MalformedNotRetried ==
    \A i \in 1..(Len(outcomes) - 1) : outcomes[i] # "malformed"

\* The last n entries of a sequence, in order.
LastN(seq, n) == SubSeq(seq, Len(seq) - Min(n, Len(seq)) + 1, Len(seq))

\* C18: after any sequence of record_query / record_upload /
\* record_system_metrics calls, the query and upload deques hold at most
\* max_history entries and the system deque at most 100; each deque holds
\* exactly the most recently recorded entries, unaltered and in insertion
\* order (the k-th recorded entry is the k-th call's), so the oldest entry
\* is the one evicted.
C18_BoundedFifo ==
    /\ Len(query_metrics) <= max_history
    /\ Len(upload_metrics) <= max_history
    /\ Len(system_metrics) <= SystemMaxLen
    /\ query_metrics = LastN(recorded.query, max_history)
    /\ upload_metrics = LastN(recorded.upload, max_history)
    /\ system_metrics = LastN(recorded.system, SystemMaxLen)
    /\ \A k \in 1..Len(recorded.query) : recorded.query[k] = QueryMetrics(k, m_kwargs)
    /\ \A k \in 1..Len(recorded.upload) : recorded.upload[k] = UploadMetrics(k)
    /\ \A k \in 1..Len(recorded.system) : recorded.system[k] = SystemMetrics(k)

C18_EvictedAtCapacity ==
    /\ max_history = 2
    /\ query_metrics = <<QueryMetrics(3, m_kwargs), QueryMetrics(4, m_kwargs)>>
    /\ upload_metrics = <<UploadMetrics(2), UploadMetrics(3)>>
    /\ Len(system_metrics) = SystemMaxLen
    /\ system_metrics[1] = SystemMetrics(2)
    /\ system_metrics[SystemMaxLen] = SystemMetrics(SystemMaxLen + 1)

\* The threads inside a record call of one kind, at one step.
InCall(kind, pc) == {t \in Threads : tpc[t] = pc /\ t_metrics[t].kind = kind}

\* C19: under every interleaving of record_query_metrics /
\* record_upload_metrics calls by two threads, every deque stays within
\* max_history and holds the latest appended entries; no entry is appended
\* twice; every call that reached its append has exactly one entry appended
\* and no other entry exists; and when no call is in progress the deque's
\* length is the number of completed calls, up to capacity.
C19_NoRecordLostOrDuplicated ==
    \A kind \in Kinds :
        LET buffer == IF kind = "query" THEN query_metrics ELSE upload_metrics
            log == recorded[kind]
        IN  /\ Len(buffer) <= max_history
            /\ buffer = LastN(log, max_history)
            /\ \A i, j \in 1..Len(log) : i # j => log[i] # log[j]
            /\ Len(log) = n_done[kind] + Cardinality(InCall(kind, "appended"))
            /\ \A t \in InCall(kind, "appended") :
                  \E i \in 1..Len(log) : log[i] = t_metrics[t].metrics
            /\ (InCall(kind, "built") = {} /\ InCall(kind, "appended") = {}) =>
                  Len(buffer) = Min(n_done[kind], max_history)

C19_OvertakenAppend ==
    /\ max_history = 2
    /\ recorded.query = <<QueryMetrics(2, m_kwargs), QueryMetrics(1, m_kwargs), QueryMetrics(3, m_kwargs)>>
    /\ query_metrics = <<QueryMetrics(1, m_kwargs), QueryMetrics(3, m_kwargs)>>
    /\ tpc["t1"] = "appended"
    /\ tpc["t2"] = "built"
    /\ n_done.query = 2

\* Every chunk after the first without its leading overlap tokens, all
\* concatenated in order.
RECURSIVE Reassemble(_, _)
Reassemble(cs, overlap_tokens) ==
    IF cs = <<>> THEN <<>>
    ELSE LET n == Len(cs)
             tail == IF n = 1 THEN cs[n].tokens
                     ELSE PySlice(cs[n].tokens, overlap_tokens, Len(cs[n].tokens))
         IN  Reassemble(SubSeq(cs, 1, n - 1), overlap_tokens) \o tail

\* C20: with 0 <= overlap_tokens < chunk_size, the chunks chunk_text returns,
\* each but the first stripped of its leading overlap_tokens tokens and
\* concatenated in order, are the original token sequence.
C20_RoundTrip ==
    (/\ cpc = "returned"
     /\ OverlapTokens(chunk_size, overlap_pct) >= 0
     /\ OverlapTokens(chunk_size, overlap_pct) < chunk_size)
    =>
    Reassemble(chunks, OverlapTokens(chunk_size, overlap_pct)) = TextTokens(total_tokens)

C20_FiveOverlappingChunks ==
    /\ cpc = "returned"
    /\ total_tokens = 12 /\ chunk_size = 4 /\ overlap_pct = 50
    /\ Len(chunks) = 5
    /\ chunks[5].tokens = <<9, 10, 11, 12>>

\* C21: batch_generate_embeddings hands the texts to generate_embedding one
\* at a time in list order; the result holds the embedding of texts[i] at
\* position i and, on success, is as long as texts; a given
\* progress_callback has been invoked once after each embedded item with
\* (1, total), (2, total), ... in that order; when item k fails, the
\* callback has been invoked k - 1 times and no later item is embedded.
C21_BatchOrderAndProgress ==
    LET total == Len(b_texts)
        done == Len(embeddings)
    IN  /\ b_embedded = SubSeq(b_texts, 1, Len(b_embedded))
        /\ embeddings = [i \in 1..done |-> Embedding(b_texts[i])]
        /\ b_progress = IF b_callback THEN [i \in 1..done |-> <<i, total>>] ELSE <<>>
        /\ bpc = "loop" => (done = b_i - 1 /\ Len(b_embedded) = done)
        /\ bpc = "returned" => (done = total /\ Len(b_embedded) = total)
        /\ bpc = "raised" => (Len(b_embedded) = done + 1 /\ done < total)

C21_SecondOfThreeFailed ==
    /\ bpc = "raised"
    /\ Len(b_texts) = 3
    /\ b_callback
    /\ b_embedded = <<b_texts[1], b_texts[2]>>
    /\ b_progress = << <<1, 3>> >>
    /\ b_texts[1] # b_texts[2]

\* C22: a search whose min_similarity is above every available score (0.9
\* against a best score of 0.8) returns an empty list, num_results = 0 and
\* avg_similarity = 0; avg_similarity is the mean of the returned scores, and
\* it is 0 when no result is returned.
C22_AvgSimilarityIsMean ==
    spc = "returned" =>
        LET n == Len(s_results)
            avg == AvgSimilarity(s_results)
            best == {Score(q_dist[r.chunk_id]) : r \in Candidates(chunk_rows, s_document_ids)}
        IN  /\ avg * n = SumScores(s_results) * AvgScale
            /\ n = 0 => avg = 0
            /\ n > 0 => avg >= s_min_similarity * AvgScale
            /\ (\A b \in best : b < s_min_similarity) => (s_results = <<>> /\ n = 0 /\ avg = 0)

C22_ThresholdAboveBestScore ==
    /\ spc = "returned"
    /\ s_min_similarity = 9
    /\ s_top_k >= 1
    /\ \E r \in chunk_rows : Score(q_dist[r.chunk_id]) = 8
    /\ \A r \in chunk_rows : Score(q_dist[r.chunk_id]) <= 8
    /\ s_results = <<>>
    /\ AvgSimilarity(s_results) = 0

\* C22 as stated, for thresholds within [0, 1]: avg_similarity is 0 exactly
\* when no result is returned.
C22_AvgZeroOnlyWhenEmpty ==
    (spc = "returned" /\ s_min_similarity >= 0) =>
        (AvgSimilarity(s_results) = 0 <=> s_results = <<>>)

\* C23: when the search of an ask_query call returns no result and every
\* collaborator succeeds, generation is invoked exactly once, with the
\* unchanged system instruction and a user message whose context part is
\* empty, and the call then goes through the audit step and returns.
C23_EmptySearchStillAnswers ==
    (/\ apc \in {"log", "returned", "raised"}
     /\ search_result.results = <<>>
     /\ a_calls.generate = 1
     /\ a_error \notin {"generate", "log_connect", "log_query"})
        => /\ messages = Messages(<<>>, a_args.query)
           /\ apc # "raised"

\* C30: ask_query searches with exactly the top_k and the min_similarity the
\* caller supplied whenever they were supplied (0 included), and with the
\* configured defaults only when the argument is None.
C30_SuppliedArgumentsUsed ==
    apc \notin {"idle", "call"} =>
        /\ a_top_k = IF a_args.top_k.none THEN ConfigTopK ELSE a_args.top_k.v
        /\ a_min_similarity = IF a_args.min_similarity.none
                              THEN ConfigMinSimilarity
                              ELSE a_args.min_similarity.v

C26_SequentialEmbedThenInsert ==
    LET n == Len(u_trace) IN
    /\ \A j \in 1..n :
          LET e == u_trace[j]
              k == (j + 1) \div 2
          IN  /\ e.call = IF j % 2 = 1 THEN "embed" ELSE "insert_chunk"
              /\ e.chunk = k
              /\ k <= Len(chunks)
              /\ e.text = chunks[k].tokens
              /\ j < n => e.ok
              /\ j % 2 = 0 => e.embedding = Embedding(chunks[k].tokens)
    /\ (n > 0 /\ ~u_trace[n].ok) => upc = "raised"
    /\ (upc = "raised" /\ u_error \in {"embed", "insert_chunk"}) => (n > 0 /\ ~u_trace[n].ok)
    /\ doc_id # 0 =>
          /\ \A r \in RowsOf(doc_id) :
                /\ r.chunk_number <= Len(chunks)
                /\ r.embedding = Embedding(chunks[r.chunk_number].tokens)
                /\ r.tokens = chunks[r.chunk_number].tokens
          /\ Cardinality(RowsOf(doc_id)) =
                Cardinality({j \in 1..n : u_trace[j].call = "insert_chunk" /\ u_trace[j].ok})

C26_SecondInsertFailed ==
    /\ upc = "raised"
    /\ u_error = "insert_chunk"
    /\ Len(chunks) = 3
    /\ Len(u_trace) = 4
    /\ Cardinality(RowsOf(doc_id)) = 1

\* C27: the ranks log_query assigns to the results of one query are exactly
\* 1..n, each once, in list order, on at most top_k audit rows; and results
\* with equal similarity score are in chunk insertion order.
C27_DenseRanksAndStableTies ==
    spc = "returned" =>
        LET n == Len(s_results)
            logged == LogQueryResults(1, s_results, s_top_k)
        IN  /\ Cardinality(logged) = n
            /\ n <= s_top_k
            /\ {r.rank : r \in logged} = 1..n
            /\ \A r \in logged : s_results[r.rank].chunk_id = r.chunk_id
            /\ \A i, j \in 1..n :
                  (i < j /\ s_results[i].similarity_score = s_results[j].similarity_score)
                      => s_results[i].chunk_id < s_results[j].chunk_id

\* C25: a record_query_metrics call given embedding_time_ms, search_time_ms
\* and generation_time_ms and no total_time_ms records an entry whose
\* total_time_ms is their sum (50 + 100 + 200 = 350), the supplied fields
\* stored unchanged.
C25_TotalIsSumOfStages ==
    \A i \in 1..Len(recorded.query) :
        LET m == recorded.query[i] IN
        /\ \A f \in DOMAIN m_kwargs : m[f] = m_kwargs[f]
        /\ ({"embedding_time_ms", "search_time_ms", "generation_time_ms"} \subseteq DOMAIN m_kwargs
                /\ "total_time_ms" \notin DOMAIN m_kwargs)
              => m.total_time_ms = m.embedding_time_ms + m.search_time_ms + m.generation_time_ms

\* C28: get_query_stats(last_n) and get_upload_stats(last_n) aggregate over
\* exactly the min(last_n, number held) most recent entries for every
\* last_n >= 0 (0 and values above the history length included) and over all
\* held entries when last_n is not given; over no entry they return an
\* empty result, otherwise the count of the aggregated entries.
C28_StatsOverLastN ==
    stats.call # "none" =>
        LET expected == IF stats.last_n.none THEN stats.held
                        ELSE LastN(stats.held, Min(stats.last_n.v, Len(stats.held)))
            key == IF stats.call = "get_query_stats" THEN "total_queries" ELSE "total_uploads"
        IN  /\ stats.metrics = expected
            /\ IF expected = <<>>
               THEN DOMAIN stats.result = {}
               ELSE DOMAIN stats.result = {key} /\ stats.result[key] = Len(expected)

\* C29: in any interleaving of uploads with a search, the search never
\* returns a chunk of a document whose upload has not returned: one that is
\* still being embedded, or one whose upload failed after some of its chunks
\* were stored.
C29_SearchSeesOnlyIngestedDocuments ==
    spc = "returned" =>
        \A i \in 1..Len(s_results) : s_results[i].document_id \in ingested

====
